---- MODULE Spec2Model ----
(***************************************************************************)
(* Session authority of hive-server: the identity tier (db_api) owning the *)
(* users and auth_tokens tables, and the edge tier (client_api) owning the *)
(* in-process token cache.  Both tiers open the same database.             *)
(***************************************************************************)
EXTENDS Integers, Sequences, FiniteSets, TLC

\* ---- bounds of the model ------------------------------------------------
Epoch0 == 1700000000   \* clock value (seconds) of the initial state
MaxClock == 2          \* the clock advances at most this many seconds
TickStep == 2          \* seconds between two observed instants
MaxRows == 2           \* a login is attempted only below this many rows
MaxUsers == 3          \* users are created only below this many accounts

\* ---- program constants --------------------------------------------------
DefaultTTL == 3600     \* body.ttl or 3600
RefreshTTL == 3600     \* new_ttl = 3600

\* ---- value domains ------------------------------------------------------
UserNames == {"alice", "bob"}
NewUserNames == {"bob", "carol"}   \* ids gen_userid may draw
Passwords == {"pw1", "pw2"}
EmptyPw == ""          \* the password refresh sends to the identity tier
Null == 0              \* SQL NULL / Python None for a time or an id
TTLs == {0, 1, 2}   \* ttl values a login request carries (0: falsy)
NetStates == {"ok", "down"}
\* what a call of _db_post meets: an answer, an HTTP or URL error ("down"), or
\* a reply that cannot be read after the identity tier handled the request
\* (connection reset while reading, body that is not JSON)
Replies == {"ok", "down", "garbled"}

\* A bearer token "<sub>.<ts>.<sig>"; sig is a function of sub and ts.
NoTok == [sub |-> "", ts |-> 0]            \* absent or empty token
Junk == [sub |-> "alice", ts |-> 1]        \* a token no login ever issued

\* ---- db/token.py --------------------------------------------------------
\* make_token(user_id, ts): ts = ts or int(time.time())
make_token(user_id, ts, clock) ==
    [sub |-> user_id, ts |-> IF ts = 0 THEN clock ELSE ts]

\* the characters an account name is written with
Chars(name) ==
    CASE name = "alice" -> <<"a", "l", "i", "c", "e">>
      [] name = "bob" -> <<"b", "o", "b">>
      [] name = "carol" -> <<"c", "a", "r", "o", "l">>
      [] name = "a.b" -> <<"a", ".", "b">>
      [] name = "1" -> <<"1">>
      [] OTHER -> <<>>

DigitChars == <<"0", "1", "2", "3", "4", "5", "6", "7", "8", "9">>

\* str(n) of a natural number
RECURSIVE Digits(_)
Digits(n) ==
    IF n < 10 THEN <<DigitChars[n + 1]>>
    ELSE Digits(n \div 10) \o <<DigitChars[(n % 10) + 1]>>

\* int(s) of a string of decimal digits; -1 stands for ValueError
RECURSIVE ParseInt(_)
ParseInt(str) ==
    IF str = <<>> THEN -1
    ELSE LET last == str[Len(str)]
             d == IF \E i \in 1..10 : DigitChars[i] = last
                  THEN (CHOOSE i \in 1..10 : DigitChars[i] = last) - 1 ELSE -1
             front == SubSeq(str, 1, Len(str) - 1)
         IN IF d < 0 THEN -1
            ELSE IF front = <<>> THEN d
            ELSE IF ParseInt(front) < 0 THEN -1
            ELSE ParseInt(front) * 10 + d

\* hexdigest of the keyed digest of "user_id:ts": hex digits only, determined
\* by user_id and ts
Sig(user_id, ts) == Digits((ts + 31 * Len(Chars(user_id))) % 256) \o <<"e">>

\* f"{user_id}.{ts}.{sig}": the string a token is sent and stored as
TokenString(tok) ==
    Chars(tok.sub) \o <<".">> \o Digits(tok.ts) \o <<".">> \o Sig(tok.sub, tok.ts)

\* str.split(".")
RECURSIVE Split(_)
Split(str) ==
    IF \A i \in 1..Len(str) : str[i] # "."
    THEN <<str>>
    ELSE LET i == CHOOSE j \in 1..Len(str) :
                     str[j] = "." /\ \A k \in 1..(j - 1) : str[k] # "."
         IN <<SubSeq(str, 1, i - 1)>> \o Split(SubSeq(str, i + 1, Len(str)))

\* parse_token: (u, int(t), s) when the string has exactly three parts and the
\* second is a number; <<>> stands for None
parse_token(str) ==
    LET parts == Split(str)
    IN IF Len(parts) # 3 THEN <<>>
       ELSE IF ParseInt(parts[2]) < 0 THEN <<>>
       ELSE <<parts[1], ParseInt(parts[2]), parts[3]>>

\* the token string with the last character of its signature replaced
AlterSig(str) ==
    [str EXCEPT ![Len(str)] = IF str[Len(str)] = "f" THEN "0" ELSE "f"]

EmptyCache == [k \in {} |-> [val |-> "", exp |-> 0]]

\* _Cache.set
CacheSet(c, k, v, ttl, clock) ==
    [x \in (DOMAIN c) \cup {k} |->
        IF x = k THEN [val |-> v, exp |-> clock + ttl] ELSE c[x]]

\* _Cache.delete
CacheDelete(c, k) == [x \in (DOMAIN c) \ {k} |-> c[x]]

\* _Cache.get: an entry is dropped, and None returned, when exp < now
CacheExpired(c, k, clock) == c[k].exp < clock

\* value returned by _Cache.get ("" for None)
CacheGetVal(c, k, clock) ==
    IF k \notin DOMAIN c THEN ""
    ELSE IF CacheExpired(c, k, clock) THEN ""
    ELSE c[k].val

\* cache left behind by _Cache.get (lazy eviction)
CacheGetCache(c, k, clock) ==
    IF k \in DOMAIN c /\ CacheExpired(c, k, clock) THEN CacheDelete(c, k)
    ELSE c

\* ---- state --------------------------------------------------------------
VARIABLES
    users,   \* table users: set of [id, user_id, is_admin, pass]
    rows,    \* table auth_tokens: set of [id, user_id_fk, token, issued_at, revoked_at]
    cache,   \* edge process: token -> [val, exp]
    now,     \* wall clock, seconds
    resp,    \* last operation: [op, status, tok it issued, revoked or was gated by, body]
    inflight, \* the call of _db_post an edge handler is blocked in, if any
    tx,      \* the open transaction of the identity tier on auth_tokens, if any
    socks,   \* websockets of the client service: id -> [token, state, code, msgs received]
    hub,     \* websocket_hub of the client service process: [conns, shutdown]
    mgr,     \* the foreground `svh server start` process and the services it started
    dels     \* delete_user requests in progress: caller -> [pc, id, user_id]

vars == <<users, rows, cache, now, resp, inflight, tx, socks, hub, mgr, dels>>

Resp(op, status, tok, body) ==
    [op |-> op, status |-> status, tok |-> tok, body |-> body]

\* ---- tables -------------------------------------------------------------
MaxOf(S) == IF S = {} THEN 0 ELSE CHOOSE m \in S : \A x \in S : x <= m

\* INTEGER PRIMARY KEY of SQLite: largest id in the table plus one
NextId(tbl) == MaxOf({r.id : r \in tbl}) + 1

\* select(User).where(User.user_id == user_id)
HasUser(us, user_id) == \E u \in us : u.user_id = user_id
UserByName(us, user_id) == CHOOSE u \in us : u.user_id = user_id

\* select(AuthToken).where(AuthToken.token == token)
HasRow(tbl, tok) == \E r \in tbl : r.token = tok
RowOf(tbl, tok) == CHOOSE r \in tbl : r.token = tok

\* a vault that accepts every password
AcceptAnyPassword(password, user) == TRUE

\* verify_password: the digest of salt and password equals the stored one
verify_password(password, user) == password = user.pass

\* ---- identity tier: db_api/auth.py ---------------------------------------
\* DbLogin as the session authority is described: revoke the account's
\* active rows before the new row is added
DbLoginRevoking(us, tbl, user_id, password, clock) ==
    IF ~HasUser(us, user_id) \/ ~verify_password(password, UserByName(us, user_id))
    THEN [status |-> 401, detail |-> "Invalid credentials", token |-> NoTok,
          user_id |-> "", is_admin |-> FALSE, rows |-> tbl]
    ELSE LET user == UserByName(us, user_id)
             token == make_token(user.user_id, 0, clock)
             old == {IF r.user_id_fk = user.id /\ r.revoked_at = Null
                     THEN [r EXCEPT !.revoked_at = clock] ELSE r : r \in tbl}
         IN IF HasRow(tbl, token)
            THEN [status |-> 500, detail |-> "Internal Server Error", token |-> NoTok,
                  user_id |-> "", is_admin |-> FALSE,
                  rows |-> tbl]
            ELSE [status |-> 200, detail |-> "", token |-> token, user_id |-> user.user_id,
                  is_admin |-> user.is_admin,
                  rows |-> old \cup {[id |-> NextId(tbl), user_id_fk |-> user.id,
                                      token |-> token, issued_at |-> clock,
                                      revoked_at |-> Null]}]

\* a login that tells an unknown account from a wrong password
DbLoginNaming(us, tbl, user_id, password, clock) ==
    IF ~HasUser(us, user_id)
    THEN [status |-> 404, detail |-> "Unknown user", token |-> NoTok,
          user_id |-> "", is_admin |-> FALSE, rows |-> tbl]
    ELSE IF ~verify_password(password, UserByName(us, user_id))
    THEN [status |-> 401, detail |-> "Wrong password", token |-> NoTok,
          user_id |-> "", is_admin |-> FALSE, rows |-> tbl]
    ELSE LET user == UserByName(us, user_id)
             token == make_token(user.user_id, 0, clock)
         IN [status |-> 200, detail |-> "", token |-> token, user_id |-> user.user_id,
             is_admin |-> user.is_admin,
             rows |-> tbl \cup {[id |-> NextId(tbl), user_id_fk |-> user.id,
                                 token |-> token, issued_at |-> clock,
                                 revoked_at |-> Null]}]

\* POST /auth/login.  The row is inserted when the transaction commits; the
\* UNIQUE constraint on token makes the commit fail (rollback, 500) when a row
\* with the same token string exists.
DbLogin(us, tbl, user_id, password, clock) ==
    IF ~HasUser(us, user_id) \/ ~verify_password(password, UserByName(us, user_id))
    THEN [status |-> 401, detail |-> "Invalid credentials", token |-> NoTok,
          user_id |-> "", is_admin |-> FALSE, rows |-> tbl]
    ELSE LET user == UserByName(us, user_id)
             token == make_token(user.user_id, 0, clock)
         IN IF HasRow(tbl, token)
            THEN [status |-> 500, detail |-> "Internal Server Error", token |-> NoTok,
                  user_id |-> "", is_admin |-> FALSE,
                  rows |-> tbl]
            ELSE [status |-> 200, detail |-> "", token |-> token, user_id |-> user.user_id,
                  is_admin |-> user.is_admin,
                  rows |-> tbl \cup {[id |-> NextId(tbl), user_id_fk |-> user.id,
                                      token |-> token, issued_at |-> clock,
                                      revoked_at |-> Null]}]

\* r comes before q in ORDER BY revoked_at DESC, id DESC
Before(r, q) ==
    \/ r.revoked_at > q.revoked_at
    \/ r.revoked_at = q.revoked_at /\ r.id > q.id

\* a prune that keeps the oldest revoked row of the account
PruneIdsKeepOldest(tbl, uid) ==
    LET revoked == {r \in tbl : r.user_id_fk = uid /\ r.revoked_at # Null}
    IN {r.id : r \in {q \in revoked : \E p \in revoked : Before(q, p)}}

\* ids[1:] of the revoked rows of one account, newest first
PruneIds(tbl, uid) ==
    LET revoked == {r \in tbl : r.user_id_fk = uid /\ r.revoked_at # Null}
    IN {r.id : r \in {q \in revoked : \E p \in revoked : Before(p, q)}}

\* DbLogout refusing a token that has no row or whose row is already revoked
DbLogoutStrict(tbl, tok, clock) ==
    IF ~HasRow(tbl, tok) THEN [status |-> 404, rows |-> tbl]
    ELSE IF RowOf(tbl, tok).revoked_at # Null THEN [status |-> 409, rows |-> tbl]
    ELSE [status |-> 200,
          rows |-> {IF r.token = tok THEN [r EXCEPT !.revoked_at = clock] ELSE r : r \in tbl}]

\* DbLogout stamping revoked_at anew on every call
DbLogoutRestamp(tbl, tok, clock) ==
    IF ~HasRow(tbl, tok) THEN [status |-> 200, rows |-> tbl]
    ELSE [status |-> 200,
          rows |-> {IF r.token = tok THEN [r EXCEPT !.revoked_at = clock] ELSE r : r \in tbl}]

\* DbLogout pruning the revoked rows of every account at once
DbLogoutPruneAll(tbl, tok, clock) ==
    IF ~HasRow(tbl, tok) THEN [status |-> 200, rows |-> tbl]
    ELSE LET row == RowOf(tbl, tok)
             revoked == {r \in tbl : r.revoked_at # Null}
             ids == {q.id : q \in {q \in revoked : \E p \in revoked : Before(p, q)}}
             kept == {r \in tbl : r.id \notin ids}
         IN [status |-> 200,
             rows |-> {IF r.id = row.id /\ r.revoked_at = Null
                       THEN [r EXCEPT !.revoked_at = clock] ELSE r : r \in kept}]

\* POST /auth/logout.  The session does not autoflush: the prune query reads
\* the table as it was before row.revoked_at was assigned, and the assignment
\* is written at commit.
DbLogout(tbl, tok, clock) ==
    IF ~HasRow(tbl, tok) THEN [status |-> 200, rows |-> tbl]
    ELSE LET row == RowOf(tbl, tok)
             ids == PruneIds(tbl, row.user_id_fk)
             kept == {r \in tbl : r.id \notin ids}
         IN [status |-> 200,
             rows |-> {IF r.id = row.id /\ r.revoked_at = Null
                       THEN [r EXCEPT !.revoked_at = clock] ELSE r : r \in kept}]

\* ---- db CLI: db/main.py -----------------------------------------------------
\* UPDATE auth_tokens SET revoked_at = now WHERE revoked_at IS NULL
RevokeActive(tbl, clock) ==
    {IF r.revoked_at = Null THEN [r EXCEPT !.revoked_at = clock] ELSE r : r \in tbl}

\* _require_admin: exit code of the guard for the token saved on the host
cli_require_admin(us, tbl, tok) ==
    IF tok = NoTok THEN 1
    ELSE IF ~HasRow(tbl, tok) THEN 1
    ELSE IF RowOf(tbl, tok).revoked_at # Null THEN 1
    ELSE IF ~(\E u \in us : u.id = RowOf(tbl, tok).user_id_fk /\ u.is_admin) THEN 1
    ELSE 0

\* clear_tokens: revoke every active row, or with --hard delete every row
clear_tokens(us, tbl, tok, hard, clock) ==
    IF cli_require_admin(us, tbl, tok) # 0 THEN [status |-> 1, rows |-> tbl]
    ELSE [status |-> 0, rows |-> IF hard THEN {} ELSE RevokeActive(tbl, clock)]

\* a startup hook that revokes and does not prune
BootRevokeNoPrune(tbl, clock) == RevokeActive(tbl, clock)

\* ---- identity tier: db_api/main.py ---------------------------------------
\* lifespan startup: UPDATE ... WHERE revoked_at IS NULL, then prune per
\* account; the bulk UPDATE is executed before the prune queries run
BootRevoke(tbl, clock) ==
    LET revoked == {IF r.revoked_at = Null THEN [r EXCEPT !.revoked_at = clock] ELSE r :
                    r \in tbl}
    IN {r \in revoked : r.id \notin PruneIds(revoked, r.user_id_fk)}

\* ---- edge tier: client_api/util.py ---------------------------------------
\* _token_from_request: Authorization: Bearer first, cookie svh_token second
TokenFromRequest(hdr, cookie) == IF hdr # NoTok THEN hdr ELSE cookie

\* current_user: [status, user_id of the account found, cache after the lookup]
current_user(us, c, hdr, cookie, clock) ==
    LET token == TokenFromRequest(hdr, cookie)
        user_id == CacheGetVal(c, token, clock)
        c2 == CacheGetCache(c, token, clock)
    IN IF token = NoTok THEN [status |-> 401, user_id |-> "", cache |-> c]
       ELSE IF user_id = "" THEN [status |-> 401, user_id |-> "", cache |-> c2]
       ELSE IF ~HasUser(us, user_id) THEN [status |-> 401, user_id |-> "", cache |-> c2]
       ELSE [status |-> 200, user_id |-> user_id, cache |-> c2]

\* a gate that asks for a logged-in account only
RequireLogin(us, c, hdr, cookie, clock) == current_user(us, c, hdr, cookie, clock)

\* require_admin: 403 unless the account found by current_user is an admin
require_admin(us, c, hdr, cookie, clock) ==
    LET cu == current_user(us, c, hdr, cookie, clock)
    IN IF cu.status # 200 THEN cu
       ELSE IF ~UserByName(us, cu.user_id).is_admin THEN [cu EXCEPT !.status = 403]
       ELSE cu

\* ---- edge tier: client_api/data.py ---------------------------------------
\* verify_user_token: status of the gate for "Authorization: Bearer <auth>"
verify_user_token(us, tbl, auth) ==
    IF auth = NoTok THEN 401
    ELSE IF ~HasRow(tbl, auth) THEN 401
    ELSE IF RowOf(tbl, auth).revoked_at # Null THEN 401
    ELSE IF ~(\E u \in us : u.id = RowOf(tbl, auth).user_id_fk) THEN 401
    ELSE 200

\* the columns of a users row as str(row[i]) gives them, for the raw
\* SELECT * FROM users: id, user_id and is_admin (stored as 1 or 0).  salt_hex,
\* pass_hash (64 hex digits) and created_at (a timestamp) equal no name drawn
\* here and are left out.
UserColumns(u) ==
    {Digits(u.id), Chars(u.user_id), IF u.is_admin THEN <<"1">> ELSE <<"0">>}

\* verify_admin_token: the row of the token must exist and be active; the
\* user is then the first users row (in id order) with any column equal to
\* the part of the token string before its first ".", and must be an admin
verify_admin_token(us, tbl, auth) ==
    LET username_or_id == Split(TokenString(auth))[1]
        found == {u \in us : username_or_id \in UserColumns(u)}
        user_row == CHOOSE u \in found : \A x \in found : u.id <= x.id
    IN IF auth = NoTok THEN 401
       ELSE IF ~HasRow(tbl, auth) THEN 401
       ELSE IF RowOf(tbl, auth).revoked_at # Null THEN 401
       ELSE IF found = {} THEN 401
       ELSE IF ~user_row.is_admin THEN 403
       ELSE 200

\* ---- edge tier: client_api/auth.py ---------------------------------------
\* result of a handler: response and the tables and cache it leaves
Out(status, tok, body, tbl, c) ==
    [status |-> status, tok |-> tok, body |-> body, rows |-> tbl, cache |-> c]

\* int(body.ttl or 3600)
EffectiveTTL(ttl) == IF ttl = 0 THEN DefaultTTL ELSE ttl

\* a login that falls back to a locally minted token, as refresh does
LoginWithFallback(us, tbl, c, user_id, password, ttl, net, clock) ==
    LET d == DbLogin(us, tbl, user_id, password, clock)
        local == make_token(user_id, DefaultTTL, clock)
    IN IF net = "down"
       THEN Out(502, NoTok, "DB API unavailable", tbl,
                CacheSet(c, local, user_id, EffectiveTTL(ttl), clock))
       ELSE IF net = "garbled" THEN Out(500, NoTok, "Internal Server Error", d.rows, c)
       ELSE IF d.status # 200 THEN Out(d.status, NoTok, d.detail, d.rows, c)
       ELSE Out(200, d.token, d.user_id, d.rows,
                CacheSet(c, d.token, d.user_id, EffectiveTTL(ttl), clock))

\* login: POST /auth/login, forwarded to the identity tier by _db_post
login(us, tbl, c, user_id, password, ttl, net, clock) ==
    LET d == DbLogin(us, tbl, user_id, password, clock)
    IN IF net = "down" THEN Out(502, NoTok, "DB API unavailable", tbl, c)
       ELSE IF net = "garbled" THEN Out(500, NoTok, "Internal Server Error", d.rows, c)
       ELSE IF d.status # 200 THEN Out(d.status, NoTok, d.detail, d.rows, c)
       ELSE Out(200, d.token, d.user_id, d.rows,
                CacheSet(c, d.token, d.user_id, EffectiveTTL(ttl), clock))

\* a resolution that prefers the Authorization header to the body token
ResolveHeaderFirst(btok, hdr, cookie) ==
    IF hdr # NoTok THEN hdr ELSE IF btok # NoTok THEN btok ELSE cookie

\* logout: body token, then Authorization: Bearer, then cookie
ResolveLogoutToken(btok, hdr, cookie) ==
    IF btok # NoTok THEN btok ELSE IF hdr # NoTok THEN hdr ELSE cookie

\* logout: POST /auth/logout.  body: "none" (no JSON body), "invalid" (a body
\* without the required user_id: 422 before the handler runs), "ok" (a body
\* with user_id and an optional token).  An HTTPException of the identity call
\* is swallowed and the cache entry is deleted all the same; any other
\* exception of the call leaves the handler before cache.delete.
logout(tbl, c, body, btok, hdr, cookie, net, clock) ==
    LET token == ResolveLogoutToken(btok, hdr, cookie)
    IN IF body = "invalid" THEN Out(422, NoTok, "", tbl, c)
       ELSE IF token = NoTok THEN Out(400, NoTok, "", tbl, c)
       ELSE IF net = "garbled"
       THEN Out(500, NoTok, "", DbLogout(tbl, token, clock).rows, c)
       ELSE Out(200, token, "ok",
                IF net = "ok" THEN DbLogout(tbl, token, clock).rows ELSE tbl,
                CacheDelete(c, token))

\* check: "active" iff cache.get(token) returns a subject
CheckStatus(c, tok, clock) ==
    IF CacheGetVal(c, tok, clock) # "" THEN "active" ELSE "revoked"

\* a refresh that trusts the account name inside the presented token
RefreshUnchecked(us, tbl, c, hdr, cookie, net, clock) ==
    LET token == TokenFromRequest(hdr, cookie)
        new_token == make_token(token.sub, RefreshTTL, clock)
    IN IF token = NoTok \/ ~HasUser(us, token.sub) THEN Out(401, NoTok, "", tbl, c)
       ELSE Out(200, new_token, "", tbl,
                CacheSet(CacheDelete(c, token), new_token, token.sub, RefreshTTL, clock))

\* refresh_token from its call of _db_post on: the new token comes from the
\* identity login or from the local fallback, the old cache entry is deleted
\* and the new one set
RefreshIssue(us, tbl, c, user_id, token, net, clock) ==
    LET d == DbLogin(us, tbl, user_id, EmptyPw, clock)
        minted == net = "ok" /\ d.status = 200
        new_token == IF minted THEN d.token
                     ELSE make_token(user_id, RefreshTTL, clock)
    IN Out(200, new_token, "", IF minted THEN d.rows ELSE tbl,
           CacheSet(CacheDelete(c, token), new_token, user_id, RefreshTTL, clock))

\* refresh_token: POST /auth/refresh.  The identity login is asked with an
\* empty password; when it fails or is unreachable the token is minted
\* locally by make_token(user_id, new_ttl).
refresh_token(us, tbl, c, hdr, cookie, net, clock) ==
    LET cu == current_user(us, c, hdr, cookie, clock)
        token == IF hdr # NoTok THEN hdr ELSE cookie
        cached_user_id == CacheGetVal(cu.cache, token, clock)
    IN IF cu.status # 200 THEN Out(cu.status, NoTok, "", tbl, cu.cache)
       ELSE IF token = NoTok \/ cached_user_id = "" \/ cached_user_id # cu.user_id
       THEN Out(401, NoTok, "", tbl, CacheGetCache(cu.cache, token, clock))
       ELSE RefreshIssue(us, tbl, cu.cache, cu.user_id, token, net, clock)

\* no call of _db_post is under way
Idle ==
    [phase |-> "none", op |-> "", user_id |-> "", password |-> "", ttl |-> 0,
     token |-> NoTok, reply |-> "", db_session |-> FALSE]

\* the handler was entered with the session of Depends(get_db), which stays
\* open until the response is sent: refresh_token depends on current_user,
\* login and logout take no dependency
HoldsDbSession(op) == op = "refresh"

\* no transaction is open
NoTx ==
    [phase |-> "none", op |-> "", tok |-> NoTok, user_id |-> "", password |-> "",
     at |-> 0, pc |-> "", work |-> {}, pending |-> {}]

\* ---- websockets and the service manager: initial values ---------------------
ConnIds == {1, 2}

\* a websocket nobody has opened yet
NoSock == [token |-> NoTok, state |-> "none", code |-> 0, msgs |-> {}]

\* WebsocketHub.__init__
NewHub == [conns |-> {}, shutdown |-> FALSE]

\* `svh server start` in the foreground after it started the selected
\* services: it waits in signal.pause(); hub is the websocket_hub object of
\* this process, imported by manager.py
Started(selected) ==
    [pc |-> "pause", selected |-> selected, hub |-> NewHub,
     client |-> IF "client" \in selected THEN "up" ELSE "none",
     db |-> IF "db" \in selected THEN "up" ELSE "none"]

\* ---- concurrent requests of DELETE /users/delete ----------------------------
\* request threads of the identity service
Callers == {1, 2}

\* a thread that serves no delete_user request
NoDel == [pc |-> "none", id |-> 0, user_id |-> ""]

\* tokens a client can present: issued ones and one that was never issued
ReqToks == {r.token : r \in rows} \cup (DOMAIN cache) \cup {Junk}
OptToks == ReqToks \cup {NoTok}

Init ==
    /\ users = {[id |-> 1, user_id |-> "alice", is_admin |-> TRUE, pass |-> "pw1"]}
    /\ rows = {}
    /\ cache = EmptyCache
    /\ now = Epoch0
    /\ resp = Resp("init", 0, NoTok, "")
    /\ inflight = Idle
    /\ tx = NoTx
    /\ socks = [i \in ConnIds |-> NoSock]
    /\ hub = NewHub
    /\ mgr = Started({"client", "db"})
    /\ dels = [c \in Callers |-> NoDel]

\* time passes; a reply is handled within the instant it arrives
Tick ==
    /\ now + TickStep <= Epoch0 + MaxClock
    /\ inflight.phase # "answered"
    /\ resp' = Resp("tick", 0, NoTok, "")
    /\ now' = now + TickStep
    /\ UNCHANGED <<users, rows, cache, inflight, tx, socks, hub, mgr, dels>>

\* ---- edge tier requests ---------------------------------------------------
\* POST /auth/login (client_api)
EdgeLogin(user_id, password, ttl, net) ==
    /\ Cardinality(rows) < MaxRows
    /\ LET r == login(users, rows, cache, user_id, password, ttl, net, now)
       IN /\ resp' = Resp("login", r.status, r.tok, r.body)
          /\ rows' = r.rows
          /\ cache' = r.cache
    /\ UNCHANGED <<users, now, inflight, tx, socks, hub, mgr, dels>>

\* POST /auth/logout (client_api); of the requests filling all three
\* channels, the ones with the never-issued token in the cookie are drawn
EdgeLogout(body, btok, hdr, cookie, net) ==
    /\ body # "ok" => btok = NoTok
    /\ body = "invalid" => hdr = NoTok /\ cookie = NoTok
    /\ btok # NoTok /\ hdr # NoTok => cookie \in {NoTok, Junk}
    /\ ResolveLogoutToken(btok, hdr, cookie) = NoTok \/ body = "invalid" => net = "ok"
    /\ LET r == logout(rows, cache, body, btok, hdr, cookie, net, now)
       IN /\ resp' = Resp("logout", r.status, r.tok, r.body)
          /\ rows' = r.rows
          /\ cache' = r.cache
    /\ UNCHANGED <<users, now, inflight, tx, socks, hub, mgr, dels>>

\* GET /auth/check
EdgeCheck(tok) ==
    /\ resp' = Resp("check", 200, NoTok, CheckStatus(cache, tok, now))
    /\ cache' = CacheGetCache(cache, tok, now)
    /\ UNCHANGED <<users, rows, now, inflight, tx, socks, hub, mgr, dels>>

\* GET /auth/whoami
EdgeWhoami(hdr, cookie) ==
    /\ LET cu == current_user(users, cache, hdr, cookie, now)
       IN /\ resp' = Resp("whoami", cu.status, NoTok, cu.user_id)
          /\ cache' = cu.cache
    /\ UNCHANGED <<users, rows, now, inflight, tx, socks, hub, mgr, dels>>

\* POST /auth/refresh
EdgeRefresh(hdr, cookie, net) ==
    /\ LET r == refresh_token(users, rows, cache, hdr, cookie, net, now)
       IN /\ resp' = Resp("refresh", r.status, r.tok, r.body)
          /\ rows' = r.rows
          /\ cache' = r.cache
    /\ UNCHANGED <<users, now, inflight, tx, socks, hub, mgr, dels>>

\* POST /users/create (client_api), gated by require_admin
EdgeCreateUser(hdr, cookie, admin, uid, pwd) ==
    /\ require_admin(users, cache, hdr, cookie, now).status = 200 =>
          Cardinality(users) < MaxUsers
    /\ LET gate == require_admin(users, cache, hdr, cookie, now)
       IN /\ cache' = gate.cache
          /\ IF gate.status # 200
             THEN /\ resp' = Resp("create_user", gate.status, TokenFromRequest(hdr, cookie), "")
                  /\ UNCHANGED users
             ELSE IF HasUser(users, uid)
             THEN /\ resp' = Resp("create_user", 500, TokenFromRequest(hdr, cookie), "")
                  /\ UNCHANGED users
             ELSE /\ resp' = Resp("create_user", 200, TokenFromRequest(hdr, cookie), uid)
                  /\ users' = users \cup {[id |-> NextId(users), user_id |-> uid,
                                           is_admin |-> admin, pass |-> pwd]}
    /\ UNCHANGED <<rows, now, inflight, tx, socks, hub, mgr, dels>>

\* GET /data, gated by verify_user_token
EdgeGetData(auth, net) ==
    /\ LET gate == verify_user_token(users, rows, auth)
       IN resp' = Resp("get_data", IF gate # 200 THEN gate
                                   ELSE IF net = "ok" THEN 200 ELSE 502, NoTok, "")
    /\ UNCHANGED <<users, rows, cache, now, inflight, tx, socks, hub, mgr, dels>>

\* a restart of the edge process that would keep the cache
EdgeRestartKeepingCache ==
    /\ resp' = Resp("edge_restart", 0, NoTok, "")
    /\ UNCHANGED <<users, rows, cache, now, inflight, tx, socks, hub, mgr, dels>>

\* the edge process restarts: the module-level cache starts empty
EdgeRestart ==
    /\ resp' = Resp("edge_restart", 0, NoTok, "")
    /\ cache' = EmptyCache
    /\ UNCHANGED <<users, rows, now, inflight, tx, socks, hub, mgr, dels>>

\* ---- identity tier requests -----------------------------------------------
\* POST /auth/logout (db_api)
DbLogoutReq(tok) ==
    /\ LET d == DbLogout(rows, tok, now)
       IN /\ resp' = Resp("db_logout", d.status, tok, IF d.status = 200 THEN "ok" ELSE "")
          /\ rows' = d.rows
    /\ UNCHANGED <<users, cache, now, inflight, tx, socks, hub, mgr, dels>>

\* svh db clear-tokens [--hard], run on the host of the database
ClearTokens(tok, hard) ==
    /\ LET r == clear_tokens(users, rows, tok, hard, now)
       IN /\ resp' = Resp("clear_tokens", r.status, NoTok, IF hard THEN "hard" ELSE "soft")
          /\ rows' = r.rows
    /\ UNCHANGED <<users, cache, now, inflight, tx, socks, hub, mgr, dels>>

\* the identity service starts: lifespan startup hook
DbRestart ==
    /\ resp' = Resp("db_restart", 0, NoTok, "")
    /\ rows' = BootRevoke(rows, now)
    /\ UNCHANGED <<users, cache, now, inflight, tx, socks, hub, mgr, dels>>

\* requests of the session endpoints; the users table is not written
Next ==
    \/ Tick
    \/ \E u \in UserNames, p \in Passwords, ttl \in TTLs, net \in Replies :
          EdgeLogin(u, p, ttl, net)
    \/ \E body \in {"none", "invalid", "ok"}, b \in OptToks, h \in OptToks,
          c \in OptToks, net \in Replies : EdgeLogout(body, b, h, c, net)
    \/ \E t \in ReqToks : EdgeCheck(t)
    \/ \E h \in OptToks, c \in OptToks : EdgeWhoami(h, c)
    \/ \E h \in OptToks, c \in OptToks, net \in Replies : EdgeRefresh(h, c, net)
    \/ \E t \in OptToks, net \in NetStates : EdgeGetData(t, net)
    \/ EdgeRestart
    \/ \E t \in ReqToks : DbLogoutReq(t)
    \/ DbRestart

Spec == Init /\ [][Next]_vars

\* requests of the admin-gated user endpoint, with the logins that feed it
NextAdmin ==
    \/ Tick
    \/ \E u \in UserNames, p \in Passwords, ttl \in TTLs, net \in NetStates :
          EdgeLogin(u, p, ttl, net)
    \/ \E h \in OptToks, c \in OptToks, a \in BOOLEAN, u \in NewUserNames,
          p \in Passwords :
          EdgeCreateUser(h, c, a, u, p)
    \/ EdgeRestart

SpecAdmin == Init /\ [][NextAdmin]_vars

\* the identity service stops: lifespan has no statement after its yield
DbShutdown ==
    /\ resp' = Resp("db_shutdown", 0, NoTok, "")
    /\ UNCHANGED <<users, rows, cache, now, inflight, tx, socks, hub, mgr, dels>>

\* every operation that writes auth_tokens: logins, refreshes, logouts at both
\* tiers, the clear-tokens command, start and stop of the identity service
NextStore ==
    \/ Tick
    \/ \E u \in UserNames, p \in Passwords, ttl \in TTLs, net \in NetStates :
          EdgeLogin(u, p, ttl, net)
    \/ \E h \in OptToks, net \in NetStates : EdgeLogout("none", NoTok, h, NoTok, net)
    \/ \E h \in OptToks, net \in NetStates : EdgeRefresh(h, NoTok, net)
    \/ \E t \in ReqToks : DbLogoutReq(t)
    \/ \E t \in OptToks, hard \in BOOLEAN : ClearTokens(t, hard)
    \/ DbRestart
    \/ DbShutdown

SpecStore == Init /\ [][NextStore]_vars

\* ---- the call of the identity tier, step by step ---------------------------
\* login reaches _db_post("/auth/login")
LoginCalls(user_id, password, ttl) ==
    /\ inflight = Idle
    /\ Cardinality(rows) < MaxRows
    /\ inflight' = [Idle EXCEPT !.phase = "sent", !.op = "login",
                                !.user_id = user_id, !.password = password,
                                !.ttl = ttl, !.db_session = HoldsDbSession("login")]
    /\ resp' = Resp("call", 0, NoTok, "login")
    /\ UNCHANGED <<users, rows, cache, now, tx, socks, hub, mgr, dels>>

\* logout has resolved a token and reaches _db_post("/auth/logout")
LogoutCalls(hdr) ==
    /\ inflight = Idle
    /\ ResolveLogoutToken(NoTok, hdr, NoTok) # NoTok
    /\ inflight' = [Idle EXCEPT !.phase = "sent", !.op = "logout",
                                !.token = ResolveLogoutToken(NoTok, hdr, NoTok),
                                !.db_session = HoldsDbSession("logout")]
    /\ resp' = Resp("call", 0, NoTok, "logout")
    /\ UNCHANGED <<users, rows, cache, now, tx, socks, hub, mgr, dels>>

\* refresh_token has passed current_user and its cache check and reaches
\* _db_post("/auth/login")
RefreshCalls(hdr) ==
    /\ inflight = Idle
    /\ LET cu == current_user(users, cache, hdr, NoTok, now)
       IN /\ cu.status = 200
          /\ hdr # NoTok
          /\ CacheGetVal(cu.cache, hdr, now) = cu.user_id
          /\ inflight' = [Idle EXCEPT !.phase = "sent", !.op = "refresh",
                                      !.user_id = cu.user_id, !.token = hdr,
                                      !.db_session = HoldsDbSession("refresh")]
          /\ cache' = cu.cache
    /\ resp' = Resp("call", 0, NoTok, "refresh")
    /\ UNCHANGED <<users, rows, now, tx, socks, hub, mgr, dels>>

\* the identity tier answers, refuses or breaks the connection; nothing
\* obliges it to
IdentityAnswers(reply) ==
    /\ inflight.phase = "sent"
    /\ inflight' = [inflight EXCEPT !.phase = "answered", !.reply = reply]
    /\ resp' = Resp("answer", 0, NoTok, reply)
    /\ UNCHANGED <<users, rows, cache, now, tx, socks, hub, mgr, dels>>

\* urlopen returns or raises and the handler runs to its end
EdgeFinish ==
    /\ inflight.phase = "answered"
    /\ LET r == IF inflight.op = "login"
                THEN login(users, rows, cache, inflight.user_id, inflight.password,
                           inflight.ttl, inflight.reply, now)
                ELSE IF inflight.op = "logout"
                THEN logout(rows, cache, "none", NoTok, inflight.token, NoTok,
                            inflight.reply, now)
                ELSE RefreshIssue(users, rows, cache, inflight.user_id,
                                  inflight.token, inflight.reply, now)
       IN /\ resp' = Resp(inflight.op, r.status, r.tok, r.body)
          /\ rows' = r.rows
          /\ cache' = r.cache
    /\ inflight' = Idle
    /\ UNCHANGED <<users, now, tx, socks, hub, mgr, dels>>

NextCalls ==
    \/ Tick
    \/ \E u \in UserNames, p \in Passwords, ttl \in TTLs : LoginCalls(u, p, ttl)
    \/ \E h \in ReqToks : LogoutCalls(h)
    \/ \E h \in ReqToks : RefreshCalls(h)
    \/ \E reply \in Replies : IdentityAnswers(reply)
    \/ EdgeFinish

\* the edge process runs its handlers to the end; the identity tier is not
\* obliged to answer
SpecCalls == Init /\ [][NextCalls]_vars /\ WF_vars(EdgeFinish)

\* ---- identity tier: db_api/users.py ----------------------------------------
\* names a user request can carry; numeric identifiers are not drawn
AccountNames == {"alice", "a.b"}

\* rename_user: 404 for an unknown account, 400 when the new name is taken
rename_user(us, old_user_id, new_user_id) ==
    IF ~HasUser(us, old_user_id) THEN [status |-> 404, users |-> us]
    ELSE IF HasUser(us, new_user_id) THEN [status |-> 400, users |-> us]
    ELSE [status |-> 200,
          users |-> {IF u.user_id = old_user_id
                     THEN [u EXCEPT !.user_id = new_user_id] ELSE u : u \in us}]

\* upsert_user: a new password and admin flag for the account of that name,
\* or a new account of that name
upsert_user(us, user_id, password, is_admin) ==
    IF HasUser(us, user_id)
    THEN {IF u.user_id = user_id
          THEN [u EXCEPT !.is_admin = is_admin, !.pass = password] ELSE u : u \in us}
    ELSE us \cup {[id |-> NextId(us), user_id |-> user_id, is_admin |-> is_admin,
                   pass |-> password]}

\* delete_user: the last admin is kept; the account's auth_tokens rows go
\* with it
delete_user(us, tbl, user_identifier) ==
    IF ~HasUser(us, user_identifier) THEN [status |-> 404, users |-> us, rows |-> tbl]
    ELSE LET u == UserByName(us, user_identifier)
         IN IF u.is_admin /\ Cardinality({x \in us : x.is_admin}) <= 1
            THEN [status |-> 400, users |-> us, rows |-> tbl]
            ELSE [status |-> 200, users |-> us \ {u},
                  rows |-> {r \in tbl : r.user_id_fk # u.id}]

\* POST /users/rename (db_api)
DbRenameUser(old_user_id, new_user_id) ==
    /\ LET r == rename_user(users, old_user_id, new_user_id)
       IN /\ resp' = Resp("rename_user", r.status, NoTok, new_user_id)
          /\ users' = r.users
    /\ UNCHANGED <<rows, cache, now, inflight, tx, socks, hub, mgr, dels>>

\* POST /users/reset/{user_id} (db_api), gen_password drawing pwd
DbResetUser(user_id, pwd, is_admin) ==
    /\ ~HasUser(users, user_id) => NextId(users) <= MaxUsers
    /\ resp' = Resp("reset_user", 200, NoTok, user_id)
    /\ users' = upsert_user(users, user_id, pwd, is_admin)
    /\ UNCHANGED <<rows, cache, now, inflight, tx, socks, hub, mgr, dels>>

\* DELETE /users/delete/{user_identifier} (db_api)
DbDeleteUser(user_identifier) ==
    /\ LET r == delete_user(users, rows, user_identifier)
       IN /\ resp' = Resp("delete_user", r.status, NoTok, user_identifier)
          /\ users' = r.users
          /\ rows' = r.rows
    /\ UNCHANGED <<cache, now, inflight, tx, socks, hub, mgr, dels>>

\* account management at the identity tier, with the logins and whoami
\* requests of the edge
NextUsers ==
    \/ \E u \in AccountNames, p \in Passwords : EdgeLogin(u, p, 0, "ok")
    \/ \E h \in ReqToks : EdgeWhoami(h, NoTok)
    \/ \E old \in AccountNames, new \in AccountNames : DbRenameUser(old, new)
    \/ \E u \in AccountNames, p \in Passwords, a \in BOOLEAN : DbResetUser(u, p, a)
    \/ \E u \in AccountNames : DbDeleteUser(u)

SpecUsers == Init /\ [][NextUsers]_vars

\* ---- edge tier: admin-only data endpoints ----------------------------------
\* POST /data, gated by verify_admin_token and forwarded to the identity tier
EdgeStoreData(auth, net) ==
    /\ LET gate == verify_admin_token(users, rows, auth)
       IN resp' = Resp("store_data", IF gate # 200 THEN gate
                                     ELSE IF net = "ok" THEN 201 ELSE 500, auth, "")
    /\ UNCHANGED <<users, rows, cache, now, inflight, tx, socks, hub, mgr, dels>>

\* DELETE /data/{id}, gated by verify_admin_token
EdgeDeleteData(auth, net) ==
    /\ LET gate == verify_admin_token(users, rows, auth)
       IN resp' = Resp("delete_data", IF gate # 200 THEN gate
                                      ELSE IF net = "ok" THEN 200 ELSE 502, auth, "")
    /\ UNCHANGED <<users, rows, cache, now, inflight, tx, socks, hub, mgr, dels>>

\* names of the accounts that use the data endpoints; an account can be given
\* a name made of digits
DataNames == {"alice", "1"}

\* the admin-only data endpoints, with the logins, logouts and account
\* resets that feed them
NextData ==
    \/ \E u \in DataNames, p \in Passwords : EdgeLogin(u, p, 0, "ok")
    \/ \E u \in DataNames, p \in Passwords, a \in BOOLEAN : DbResetUser(u, p, a)
    \/ \E t \in ReqToks : DbLogoutReq(t)
    \/ \E t \in OptToks, net \in NetStates : EdgeStoreData(t, net)
    \/ \E t \in OptToks, net \in NetStates : EdgeDeleteData(t, net)

SpecData == Init /\ [][NextData]_vars

\* the session requests of the clients of one edge process, the identity
\* tier answering; time does not stand still
NextSessions ==
    \/ Tick
    \/ \E u \in UserNames, p \in Passwords, ttl \in TTLs : EdgeLogin(u, p, ttl, "ok")
    \/ \E h \in ReqToks : EdgeLogout("none", NoTok, h, NoTok, "ok")
    \/ \E h \in ReqToks : EdgeRefresh(h, NoTok, "ok")
    \/ \E t \in ReqToks : EdgeCheck(t)

SpecSessions == Init /\ [][NextSessions]_vars /\ WF_vars(Tick)

\* ---- identity tier: one transaction of session_scope, step by step ---------
\* a session that commits every statement as it is executed
AfterStatementAutocommit(committed, work) == work

\* sessionmaker(autocommit=False): what other transactions see of the table
\* after a statement of an open transaction is the committed table
AfterStatement(committed, work) == committed

\* flush at commit: pending inserts and updates of the session are written
Flush(work, pending) ==
    {r \in work : \A q \in pending : q.id # r.id} \cup pending

\* the table two logins and two logouts of alice before the first observed
\* instant leave: two revoked rows (the prune of each logout ran before its
\* own revocation was flushed)
OldRows ==
    {[id |-> 1, user_id_fk |-> 1, token |-> make_token("alice", 0, Epoch0 - 2),
      issued_at |-> Epoch0 - 2, revoked_at |-> Epoch0 - 1],
     [id |-> 2, user_id_fk |-> 1, token |-> make_token("alice", 0, Epoch0 - 1),
      issued_at |-> Epoch0 - 1, revoked_at |-> Epoch0 - 1]}

InitTx ==
    /\ users = {[id |-> 1, user_id |-> "alice", is_admin |-> TRUE, pass |-> "pw1"]}
    /\ rows = OldRows
    /\ cache = EmptyCache
    /\ now = Epoch0
    /\ resp = Resp("init", 0, NoTok, "")
    /\ inflight = Idle
    /\ tx = NoTx
    /\ socks = [i \in ConnIds |-> NoSock]
    /\ hub = NewHub
    /\ mgr = Started({"client", "db"})
    /\ dels = [c \in Callers |-> NoDel]

\* with session_scope() as s: of login, logout or the startup hook
TxBegin(op, tok, user_id, password) ==
    /\ tx = NoTx
    /\ op # "logout" => tok = NoTok
    /\ op # "login" => user_id = "alice" /\ password = "pw1"
    /\ tx' = [NoTx EXCEPT !.phase = "open", !.op = op, !.tok = tok,
                          !.user_id = user_id, !.password = password,
                          !.pc = "start", !.work = rows]
    /\ resp' = Resp("tx_begin", 0, tok, op)
    /\ UNCHANGED <<users, rows, cache, now, inflight, socks, hub, mgr, dels>>

\* the statements before the prune.  login: select the user, verify, s.add
\* the new row (pending), or raise 401.  logout: select the row, assign
\* revoked_at (pending).  startup hook: the bulk UPDATE, executed at once.
TxStart ==
    /\ tx.phase = "open" /\ tx.pc = "start"
    /\ IF tx.op = "login"
       THEN IF ~HasUser(users, tx.user_id)
               \/ ~verify_password(tx.password, UserByName(users, tx.user_id))
            THEN /\ tx' = NoTx
                 /\ resp' = Resp("tx_login", 401, NoTok, "Invalid credentials")
            ELSE /\ tx' = [tx EXCEPT !.at = now, !.pc = "commit",
                              !.pending = {[id |-> NextId(tx.work),
                                            user_id_fk |-> UserByName(users, tx.user_id).id,
                                            token |-> make_token(tx.user_id, 0, now),
                                            issued_at |-> now, revoked_at |-> Null]}]
                 /\ resp' = Resp("tx_step", 0, NoTok, "add")
       ELSE IF tx.op = "logout"
       THEN IF ~HasRow(tx.work, tx.tok)
            THEN /\ tx' = [tx EXCEPT !.at = now, !.pc = "commit"]
                 /\ resp' = Resp("tx_step", 0, NoTok, "no row")
            ELSE /\ tx' = [tx EXCEPT !.at = now, !.pc = "prune",
                              !.pending = IF RowOf(tx.work, tx.tok).revoked_at = Null
                                          THEN {[RowOf(tx.work, tx.tok)
                                                   EXCEPT !.revoked_at = now]}
                                          ELSE {}]
                 /\ resp' = Resp("tx_step", 0, NoTok, "revoke")
       ELSE /\ tx' = [tx EXCEPT !.at = now, !.pc = "prune",
                                !.work = RevokeActive(tx.work, now)]
            /\ resp' = Resp("tx_step", 0, NoTok, "revoke all")
    /\ rows' = AfterStatement(rows, tx'.work)
    /\ UNCHANGED <<users, cache, now, inflight, socks, hub, mgr, dels>>

\* the prune: DELETE ... WHERE id IN ids[1:], executed in the transaction, for
\* the account of the token (logout) or for every account (startup hook)
TxPrune ==
    /\ tx.phase = "open" /\ tx.pc = "prune"
    /\ tx' = [tx EXCEPT !.pc = "commit",
                        !.work = IF tx.op = "logout"
                                 THEN {r \in tx.work : r.id \notin
                                          PruneIds(tx.work, RowOf(tx.work, tx.tok).user_id_fk)}
                                 ELSE {r \in tx.work : r.id \notin
                                          PruneIds(tx.work, r.user_id_fk)}]
    /\ resp' = Resp("tx_step", 0, NoTok, "prune")
    /\ rows' = AfterStatement(rows, tx'.work)
    /\ UNCHANGED <<users, cache, now, inflight, socks, hub, mgr, dels>>

\* s.commit(): flush and commit; a flush that breaks the UNIQUE constraint on
\* token raises, and the except branch rolls back
TxCommit ==
    /\ tx.phase = "open" /\ tx.pc = "commit"
    /\ IF \E q \in tx.pending, r \in tx.work : q.id # r.id /\ q.token = r.token
       THEN /\ rows' = rows
            /\ resp' = Resp("tx_" \o tx.op, 500, tx.tok, "rollback")
       ELSE /\ rows' = Flush(tx.work, tx.pending)
            /\ resp' = Resp("tx_" \o tx.op, 200, tx.tok, "commit")
    /\ tx' = NoTx
    /\ UNCHANGED <<users, cache, now, inflight, socks, hub, mgr, dels>>

\* an exception inside the with block, or the end of the process: rollback
TxAbort ==
    /\ tx.phase = "open"
    /\ rows' = rows
    /\ resp' = Resp("tx_" \o tx.op, 500, tx.tok, "rollback")
    /\ tx' = NoTx
    /\ UNCHANGED <<users, cache, now, inflight, socks, hub, mgr, dels>>

NextTx ==
    \/ Tick
    \/ \E op \in {"login", "logout", "boot"}, t \in OptToks, u \in UserNames,
          p \in Passwords : TxBegin(op, t, u, p)
    \/ TxStart
    \/ TxPrune
    \/ TxCommit
    \/ TxAbort

SpecTx == InitTx /\ [][NextTx]_vars

\* identity logouts with the sessions of two accounts: alice and a second
\* account made by reset_user
NextFrame ==
    \/ Tick
    \/ \E p \in Passwords : DbResetUser("bob", p, FALSE)
    \/ \E u \in UserNames, p \in Passwords : EdgeLogin(u, p, 0, "ok")
    \/ \E t \in ReqToks : DbLogoutReq(t)

SpecFrame == Init /\ [][NextFrame]_vars

\* ---- the CLI client: server/auth_users.py ----------------------------------
\* the JSON body `svh server logout` posts is {"token": T}: it has no user_id,
\* which LogoutIn requires
CliLogoutBody == "invalid"

\* svh server logout with the saved token: POST /auth/logout with the body
\* and Authorization: Bearer T; any error of the request is swallowed and the
\* token file is removed
cli_logout(tbl, c, saved, net, clock) ==
    LET r == logout(tbl, c, CliLogoutBody, saved, saved, NoTok, net, clock)
    IN [r EXCEPT !.tok = saved, !.body = "cleared"]

CliLogout(saved) ==
    /\ LET r == cli_logout(rows, cache, saved, "ok", now)
       IN /\ resp' = Resp("cli_logout", r.status, r.tok, r.body)
          /\ rows' = r.rows
          /\ cache' = r.cache
    /\ UNCHANGED <<users, now, inflight, tx, socks, hub, mgr, dels>>

\* the CLI client against a reachable edge
NextCli ==
    \/ Tick
    \/ \E u \in UserNames, p \in Passwords, ttl \in TTLs : EdgeLogin(u, p, ttl, "ok")
    \/ \E t \in ReqToks : CliLogout(t)
    \/ \E t \in ReqToks : EdgeCheck(t)

SpecCli == Init /\ [][NextCli]_vars

\* ---- identity tier: delete_user requests served by concurrent threads -------
\* delete_user up to s.delete(u): the user is looked up and, if it is an
\* admin, the admins are counted; a 404 or 400 ends the request, otherwise
\* the delete is pending in the session until session_scope commits
DelBegin(c, user_identifier) ==
    /\ dels[c].pc = "none"
    /\ LET r == delete_user(users, rows, user_identifier)
       IN IF r.status # 200
          THEN /\ resp' = Resp("delete_user", r.status, NoTok, user_identifier)
               /\ dels' = dels
          ELSE /\ resp' = Resp("delete_pending", 0, NoTok, user_identifier)
               /\ dels' = [dels EXCEPT ![c] =
                      [pc |-> "commit", id |-> UserByName(users, user_identifier).id,
                       user_id |-> user_identifier]]
    /\ UNCHANGED <<users, rows, cache, now, inflight, tx, socks, hub, mgr>>

\* s.commit() of session_scope: the DELETE of the users row by primary key
\* is flushed and committed, the account's auth_tokens rows go with it; a
\* DELETE that matches no row raises and the request answers 500
DelCommit(c) ==
    /\ dels[c].pc = "commit"
    /\ IF \E u \in users : u.id = dels[c].id
       THEN /\ users' = {u \in users : u.id # dels[c].id}
            /\ rows' = {r \in rows : r.user_id_fk # dels[c].id}
            /\ resp' = Resp("delete_user", 200, NoTok, dels[c].user_id)
       ELSE /\ UNCHANGED <<users, rows>>
            /\ resp' = Resp("delete_user", 500, NoTok, dels[c].user_id)
    /\ dels' = [dels EXCEPT ![c] = NoDel]
    /\ UNCHANGED <<cache, now, inflight, tx, socks, hub, mgr>>

\* delete_user requests of two threads; accounts are made and changed by
\* reset_user, and log in, only while no delete_user request is in progress
NextDel ==
    \/ \E u \in UserNames, a \in BOOLEAN :
           (\A c \in Callers : dels[c] = NoDel) /\ DbResetUser(u, "pw1", a)
    \/ \E u \in UserNames :
           (\A c \in Callers : dels[c] = NoDel) /\ EdgeLogin(u, "pw1", 0, "ok")
    \/ \E c \in Callers, u \in UserNames : DelBegin(c, u)
    \/ \E c \in Callers : DelCommit(c)

SpecDel == Init /\ [][NextDel]_vars

\* ---- websockets: client_api/websocket ---------------------------------------
\* (None, False)
NoUser == [user_id |-> "", is_admin |-> FALSE]

\* _resolve_token: users joined with auth_tokens on the token string, the row
\* not revoked; the edge cache is not consulted
resolve_token(us, tbl, token_str) ==
    IF token_str = NoTok THEN NoUser
    ELSE LET hit == {u \in us : \E r \in tbl : /\ r.user_id_fk = u.id
                                              /\ r.token = token_str
                                              /\ r.revoked_at = Null}
         IN IF hit = {} THEN NoUser
            ELSE LET u == CHOOSE u \in hit : TRUE
                 IN [user_id |-> u.user_id, is_admin |-> u.is_admin]

\* WebsocketHub.connect
connect(h, ws, user_id, is_admin) ==
    [h EXCEPT !.conns = @ \cup {[ws |-> ws, user_id |-> user_id, is_admin |-> is_admin]}]

\* WebsocketHub.disconnect
disconnect(h, ws) == [h EXCEPT !.conns = {c \in @ : c.ws # ws}]

\* WebsocketHub.shutdown on the hub object h: every connection of h is sent
\* server_shutdown and closed with 1001 (a send or close on a closed socket
\* raises and is logged), then the list is cleared
shutdown(h, ss) ==
    IF h.shutdown THEN [hub |-> h, socks |-> ss]
    ELSE [hub |-> [conns |-> {}, shutdown |-> TRUE],
          socks |-> [i \in DOMAIN ss |->
                       IF (\E c \in h.conns : c.ws = i) /\ ss[i].state = "open"
                       THEN [ss[i] EXCEPT !.msgs = @ \cup {"server_shutdown"},
                                          !.state = "closed", !.code = 1001]
                       ELSE ss[i]]]

\* websocket_endpoint up to the receive loop: token of the query string
\* resolved before accept
WsConnect(i, t) ==
    /\ socks[i].state = "none"
    /\ mgr.client = "up"
    /\ LET u == resolve_token(users, rows, t)
       IN IF u.user_id = ""
          THEN /\ socks' = [socks EXCEPT ![i] = [NoSock EXCEPT !.token = t,
                                     !.state = "closed", !.code = 4401]]
               /\ hub' = hub
               /\ resp' = Resp("ws_connect", 4401, t, "")
          ELSE /\ socks' = [socks EXCEPT ![i] = [NoSock EXCEPT !.token = t,
                                     !.state = "open", !.msgs = {"popup"}]]
               /\ hub' = connect(hub, i, u.user_id, u.is_admin)
               /\ resp' = Resp("ws_connect", 101, t, u.user_id)
    /\ UNCHANGED <<users, rows, cache, now, inflight, tx, mgr, dels>>

\* one round of _periodic_heartbeat after its sleep
Heartbeat(i) ==
    /\ socks[i].state = "open"
    /\ mgr.client = "up"
    /\ LET u == resolve_token(users, rows, socks[i].token)
       IN IF u.user_id = ""
          THEN /\ socks' = [socks EXCEPT ![i].state = "closed", ![i].code = 4401]
               /\ resp' = Resp("heartbeat", 4401, socks[i].token, "")
          ELSE /\ socks' = [socks EXCEPT ![i].msgs = @ \cup {"heartbeat"}]
               /\ resp' = Resp("heartbeat", 0, socks[i].token, u.user_id)
    /\ UNCHANGED <<users, rows, cache, now, inflight, tx, hub, mgr, dels>>

\* websocket_endpoint leaving its receive loop on a closed socket: finally
WsEndpointExit(i) ==
    /\ socks[i].state = "closed"
    /\ \E c \in hub.conns : c.ws = i
    /\ mgr.client = "up"
    /\ hub' = disconnect(hub, i)
    /\ resp' = Resp("ws_closed", socks[i].code, socks[i].token, "")
    /\ UNCHANGED <<users, rows, cache, now, inflight, tx, socks, mgr, dels>>

\* websocket clients of a running edge, each opened with a token that is
\* active at the edge, and sessions that expire or are logged out
NextWs ==
    \/ Tick
    \/ \E u \in UserNames, p \in Passwords, ttl \in TTLs : EdgeLogin(u, p, ttl, "ok")
    \/ \E h \in ReqToks : EdgeLogout("none", NoTok, h, NoTok, "ok")
    \/ \E i \in ConnIds, t \in ReqToks :
           CheckStatus(cache, t, now) = "active" /\ WsConnect(i, t)
    \/ \E i \in ConnIds : Heartbeat(i)
    \/ \E i \in ConnIds : WsEndpointExit(i)

SpecWs ==
    /\ Init /\ [][NextWs]_vars
    /\ \A i \in ConnIds : WF_vars(Heartbeat(i)) /\ WF_vars(WsEndpointExit(i))

\* ---- the service manager: server/manager.py, server/crud.py -----------------
\* what is left of the websockets of a uvicorn process that terminates
\* without WebsocketHub.shutdown: the open ones are closed by the server
\* (1012) or lost with the process (1006), no message is sent
ProcessGone(ss, code) ==
    [i \in DOMAIN ss |->
        IF ss[i].state = "open" THEN [ss[i] EXCEPT !.state = "closed", !.code = code]
        ELSE ss[i]]

\* SIGINT or SIGTERM of the foreground `svh server start`:
\* _handle_exit_graceful runs websocket_hub.shutdown() on the hub object of
\* the manager process (the services are other processes, started by
\* subprocess.Popen, with hub objects of their own), sends SIGTERM to each
\* selected service and exits
HandleExitGraceful ==
    /\ mgr.pc = "pause"
    /\ LET r == IF "client" \in mgr.selected THEN shutdown(mgr.hub, socks)
                ELSE [hub |-> mgr.hub, socks |-> socks]
       IN /\ socks' = r.socks
          /\ mgr' = [mgr EXCEPT !.pc = "exited", !.hub = r.hub,
                         !.client = IF "client" \in mgr.selected THEN "sigterm" ELSE @,
                         !.db = IF "db" \in mgr.selected THEN "sigterm" ELSE @]
    /\ resp' = Resp("handle_exit", 0, NoTok, "")
    /\ UNCHANGED <<users, rows, cache, now, inflight, tx, hub, dels>>

\* the uvicorn process of the client service terminates on its SIGTERM; its
\* lifespan has no shutdown code
ClientStops(code) ==
    /\ mgr.client = "sigterm"
    /\ mgr' = [mgr EXCEPT !.client = "down"]
    /\ socks' = ProcessGone(socks, code)
    /\ hub' = [hub EXCEPT !.conns = {}]
    /\ resp' = Resp("client_stopped", 0, NoTok, "")
    /\ UNCHANGED <<users, rows, cache, now, inflight, tx, dels>>

\* the uvicorn process of the identity service terminates on its SIGTERM
DbStops ==
    /\ mgr.db = "sigterm"
    /\ mgr' = [mgr EXCEPT !.db = "down"]
    /\ resp' = Resp("db_stopped", 0, NoTok, "")
    /\ UNCHANGED <<users, rows, cache, now, inflight, tx, socks, hub, dels>>

\* svh server start client, or svh server start all
InitMgr ==
    /\ users = {[id |-> 1, user_id |-> "alice", is_admin |-> TRUE, pass |-> "pw1"]}
    /\ rows = {}
    /\ cache = EmptyCache
    /\ now = Epoch0
    /\ resp = Resp("init", 0, NoTok, "")
    /\ inflight = Idle
    /\ tx = NoTx
    /\ socks = [i \in ConnIds |-> NoSock]
    /\ hub = NewHub
    /\ mgr \in {Started({"client"}), Started({"client", "db"})}
    /\ dels = [c \in Callers |-> NoDel]

\* websocket clients of a client service that the manager shuts down
NextMgr ==
    \/ Tick
    \/ mgr.client = "up" /\ mgr.db \in {"up", "none"} /\ EdgeLogin("alice", "pw1", 0, "ok")
    \/ \E h \in ReqToks :
           /\ mgr.client = "up" /\ mgr.db \in {"up", "none"}
           /\ EdgeLogout("none", NoTok, h, NoTok, "ok")
    \/ \E i \in ConnIds, t \in OptToks : WsConnect(i, t)
    \/ \E i \in ConnIds : Heartbeat(i)
    \/ \E i \in ConnIds : WsEndpointExit(i)
    \/ HandleExitGraceful
    \/ \E code \in {1006, 1012} : ClientStops(code)
    \/ DbStops

SpecMgr == InitMgr /\ [][NextMgr]_vars

\* ==== properties ===========================================================
ActiveRows(tbl, uid) == {r \in tbl : r.user_id_fk = uid /\ r.revoked_at = Null}
RevokedRows(tbl, uid) == {r \in tbl : r.user_id_fk = uid /\ r.revoked_at # Null}

C2_NoAccessWithoutCacheEntry ==
    [][/\ resp'.op = "whoami" /\ resp'.status = 200 =>
             \A h \in OptToks, c \in OptToks :
                EdgeWhoami(h, c) =>
                   CheckStatus(cache, TokenFromRequest(h, c), now) = "active"
       /\ resp'.op = "refresh" /\ resp'.status = 200 =>
             \A h \in OptToks, c \in OptToks, net \in NetStates :
                EdgeRefresh(h, c, net) =>
                   CheckStatus(cache, TokenFromRequest(h, c), now) = "active"
       /\ resp'.op = "get_data" /\ resp'.status # 401 =>
             \A t \in OptToks, net \in NetStates :
                EdgeGetData(t, net) => CheckStatus(cache, t, now) = "active"]_vars

\* C3 as stated: after an identity-tier logout that found the token's row,
\* the account owning the token has at most one revoked row.
C3_OneRevokedRowAfterLogout ==
    [][resp'.op = "db_logout" /\ HasRow(rows, resp'.tok) =>
          Cardinality(RevokedRows(rows', RowOf(rows, resp'.tok).user_id_fk)) <= 1]_vars

\* C4: an edge restart leaves every auth_tokens row as it was and makes check
\* report "revoked" and whoami return 401 for every token that has a row; a
\* token with a row never comes back into the cache; whoami and check do not
\* touch the rows; the identity service's start-up revoke leaves no row with
\* revoked_at = null.
C4_RestartDropsSessionsKeepsRows ==
    [][/\ resp'.op = "edge_restart" =>
             /\ rows' = rows
             /\ \A r \in rows :
                   /\ CheckStatus(cache', r.token, now') = "revoked"
                   /\ current_user(users', cache', r.token, NoTok, now').status = 401
                   /\ current_user(users', cache', NoTok, r.token, now').status = 401
       /\ \A r \in rows : r.token \notin DOMAIN cache => r.token \notin DOMAIN cache'
       /\ resp'.op \in {"whoami", "check"} => rows' = rows
       /\ resp'.op = "db_restart" => \A r \in rows' : r.revoked_at # Null]_vars

\* the edge restarted while a token was live in the cache; its row is not
\* revoked
C4_Witness ==
    /\ resp.op = "edge_restart"
    /\ cache = EmptyCache
    /\ \E r \in rows : r.revoked_at = Null /\ r.issued_at + DefaultTTL > now

\* C5 as stated: the token of a successful edge login with TTL ttl at time t0
\* is reported active at every time before t0 + ttl and revoked at every time
\* after t0 + ttl.
C5_ActiveUntilTtlRevokedAfter ==
    [][resp'.op = "login" /\ resp'.status = 200 =>
          \A u \in UserNames, p \in Passwords, ttl \in TTLs, net \in NetStates :
             EdgeLogin(u, p, ttl, net) =>
                \A t \in now .. (now + MaxClock + 1) :
                   /\ t < now + ttl => CheckStatus(cache', resp'.tok, t) = "active"
                   /\ t > now + ttl => CheckStatus(cache', resp'.tok, t) = "revoked"]_vars

\* C6 as stated: after a successful refresh presenting T_old and returning
\* T_new, check(T_old) is "revoked", check(T_new) is "active", T_new maps to
\* the account T_old mapped to and expires 3600 s after the refresh.
C6_RefreshReplacesToken ==
    [][resp'.op = "refresh" /\ resp'.status = 200 =>
          \A h \in OptToks, c \in OptToks, net \in NetStates :
             EdgeRefresh(h, c, net) =>
                LET old == TokenFromRequest(h, c)
                IN /\ CheckStatus(cache', old, now') = "revoked"
                   /\ CheckStatus(cache', resp'.tok, now') = "active"
                   /\ cache'[resp'.tok].val = cache[old].val
                   /\ cache'[resp'.tok].exp = now' + RefreshTTL]_vars

C8_LogoutTokenPrecedence ==
    \A body \in {"none", "ok"}, b \in OptToks, h \in OptToks, c \in OptToks,
       net \in NetStates :
       (body = "none" => b = NoTok) =>
          LET r == logout(rows, cache, body, b, h, c, net, now)
          IN IF <<b, h, c>> = <<NoTok, NoTok, NoTok>>
             THEN r.status = 400 /\ r.rows = rows /\ r.cache = cache
             ELSE /\ r.status = 200
                  /\ b # NoTok => r.tok = b
                  /\ b = NoTok /\ h # NoTok => r.tok = h
                  /\ b = NoTok /\ h = NoTok => r.tok = c
                  /\ DOMAIN r.cache = (DOMAIN cache) \ {r.tok}
                  /\ \A k \in DOMAIN r.cache : r.cache[k] = cache[k]
                  /\ \A q \in rows : q.token # r.tok /\ q.revoked_at = Null => q \in r.rows
                  /\ \A q \in r.rows : q \in rows \/ q.token = r.tok
                  /\ net = "down" => r.rows = rows

\* an edge logout evicted its token and revoked its row while another token
\* is still live in the cache with a non-revoked row
C8_Witness ==
    /\ resp.op = "logout" /\ resp.status = 200
    /\ resp.tok \notin DOMAIN cache
    /\ HasRow(rows, resp.tok) /\ RowOf(rows, resp.tok).revoked_at # Null
    /\ \E k \in DOMAIN cache : HasRow(rows, k) /\ RowOf(rows, k).revoked_at = Null

\* C9: an edge login that reaches the identity tier with an account name and
\* password matching no account returns 401 and leaves rows and cache as
\* they were.
C9_FailedLoginChangesNothing ==
    [][resp'.op = "login" =>
          \A u \in UserNames, p \in Passwords, ttl \in TTLs :
             /\ EdgeLogin(u, p, ttl, "ok")
             /\ \A x \in users : x.user_id = u => x.pass # p
             => resp'.status = 401 /\ rows' = rows /\ cache' = cache]_vars

\* a login was refused while a row and a cache entry existed
C9_Witness ==
    /\ resp.op = "login" /\ resp.status = 401
    /\ rows # {} /\ DOMAIN cache # {}

\* C10: POST /users/create adds an account only when the presented token has
\* a live cache entry whose account is an admin; it answers 403 and adds
\* nothing when the entry's account is not an admin, and 401 and adds nothing
\* when there is no token or no live entry.
C10_AdminGate ==
    [][resp'.op = "create_user" =>
          LET t == resp'.tok
              live == t \in DOMAIN cache /\ cache[t].exp >= now
              admins == {u \in users : live /\ u.user_id = cache[t].val /\ u.is_admin}
              others == {u \in users : live /\ u.user_id = cache[t].val /\ ~u.is_admin}
          IN /\ users' # users => admins # {}
             /\ others # {} => resp'.status = 403 /\ users' = users
             /\ ~live => resp'.status = 401 /\ users' = users
             /\ rows' = rows]_vars

\* an account that is not an admin presented its live token and was refused
C10_Witness ==
    /\ resp.op = "create_user" /\ resp.status = 403
    /\ resp.tok \in DOMAIN cache
    /\ \E u \in users : u.user_id = cache[resp.tok].val /\ ~u.is_admin

\* C11: when the start-up hook of the identity service has run, no row has
\* revoked_at = null, every account that had rows keeps exactly one, and the
\* row kept is the one revoked last (the highest id among equals).
C11_BootRevokeKeepsLatestRevoked ==
    [][resp'.op = "db_restart" =>
          /\ \A r \in rows' : r.revoked_at # Null
          /\ \A r1 \in rows', r2 \in rows' : r1.user_id_fk = r2.user_id_fk => r1 = r2
          /\ \A q \in rows : \E r \in rows' :
                LET qt == IF q.revoked_at = Null THEN now ELSE q.revoked_at
                IN /\ r.user_id_fk = q.user_id_fk
                   /\ qt < r.revoked_at \/ (qt = r.revoked_at /\ q.id <= r.id)]_vars

\* the start-up hook ran on two rows of one account and kept the second
C11_Witness ==
    /\ resp.op = "db_restart"
    /\ Cardinality(rows) = 1
    /\ \E r \in rows : r.id = 2 /\ r.revoked_at = now

\* C12: in every step, a row whose revoked_at is set is either kept exactly
\* as it is or deleted; no step resets or changes its revoked_at.
C12_RevokedRowOnlyDeleted ==
    [][\A r \in rows : r.revoked_at # Null =>
          r \in rows' \/ (\A q \in rows' : q.id # r.id)]_vars

\* the start-up hook ran and kept a row that had been revoked at an earlier
\* instant
C12_Witness ==
    /\ resp.op = "db_restart"
    /\ \E r \in rows : r.revoked_at # Null /\ r.revoked_at < now

\* C13 as stated: whenever the identity call of an edge logout fails, in any
\* way, for a token that is live in the cache, the logout still returns 200
\* {ok: true} and check(token) reports "revoked" afterwards.
C13_LogoutAbsorbsIdentityFailure ==
    \A body \in {"none", "ok"}, b \in OptToks, h \in OptToks, c \in OptToks,
       net \in Replies \ {"ok"} :
       /\ body = "none" => b = NoTok
       /\ CheckStatus(cache, ResolveLogoutToken(b, h, c), now) = "active"
       => LET r == logout(rows, cache, body, b, h, c, net, now)
          IN /\ r.status = 200 /\ r.body = "ok"
             /\ CheckStatus(r.cache, ResolveLogoutToken(b, h, c), now) = "revoked"

\* C14 as stated: an edge login with the name and password of an account,
\* answered by the identity tier, returns 200 with a token no earlier login
\* was given, whatever logins came before and whenever.
C14_ValidLoginAlwaysSucceeds ==
    [][resp'.op = "login" =>
          \A u \in UserNames, p \in Passwords, ttl \in TTLs :
             /\ EdgeLogin(u, p, ttl, "ok")
             /\ \E x \in users : x.user_id = u /\ x.pass = p
             => resp'.status = 200 /\ ~HasRow(rows, resp'.tok)]_vars

\* C15 as stated: for every cache entry, get returns the subject one second
\* before expires_at, and returns nothing and evicts the entry at expires_at
\* and later; in particular at the current time.
C15_GetExpiresAtExpiry ==
    \A k \in DOMAIN cache :
       /\ CacheGetVal(cache, k, cache[k].exp - 1) = cache[k].val
       /\ cache[k].exp <= now =>
             CacheGetVal(cache, k, now) = "" /\ k \notin DOMAIN CacheGetCache(cache, k, now)

\* C16: a refresh presenting a token without a live cache entry answers 401,
\* mints no token, leaves the rows as they are, adds no cache entry and
\* removes or changes no live one (an expired entry may be evicted).
C16_RefreshRefusedChangesNothing ==
    [][resp'.op = "refresh" =>
          \A h \in OptToks, c \in OptToks, net \in Replies :
             LET t == IF h # NoTok THEN h ELSE c
                 live == t \in DOMAIN cache /\ cache[t].exp >= now
             IN ~live /\ EdgeRefresh(h, c, net) =>
                   /\ resp'.status = 401 /\ resp'.tok = NoTok
                   /\ rows' = rows
                   /\ DOMAIN cache' \subseteq DOMAIN cache
                   /\ \A k \in DOMAIN cache' : cache'[k] = cache[k]
                   /\ \A k \in DOMAIN cache : cache[k].exp >= now => k \in DOMAIN cache']_vars

\* a refresh was refused while some token with a non-revoked row had no cache
\* entry
C16_Witness ==
    /\ resp.op = "refresh" /\ resp.status = 401
    /\ \E r \in rows : r.revoked_at = Null /\ r.token \notin DOMAIN cache

\* C19 as stated: when the identity service has shut down, no row has
\* revoked_at = null.
C19_ShutdownRevokesAll ==
    [][resp'.op = "db_shutdown" => \A r \in rows' : r.revoked_at # Null]_vars

\* C20: in every reachable state, a login naming no account and a login
\* naming an account with a password that is not its own get the same answer
\* (401, same detail, no token) and have the same effect, at the identity tier
\* and as relayed by the edge.
C20_RefusalsIndistinguishable ==
    \A u1 \in UserNames, u2 \in UserNames, p1 \in Passwords, p2 \in Passwords,
       ttl \in TTLs :
       /\ \A x \in users : x.user_id # u1
       /\ \E x \in users : x.user_id = u2 /\ x.pass # p2
       => /\ DbLogin(users, rows, u1, p1, now).status = 401
          /\ DbLogin(users, rows, u1, p1, now) = DbLogin(users, rows, u2, p2, now)
          /\ login(users, rows, cache, u1, p1, ttl, "ok", now).status = 401
          /\ login(users, rows, cache, u1, p1, ttl, "ok", now)
                = login(users, rows, cache, u2, p2, ttl, "ok", now)

\* a login was refused with the one answer both cases get
C20_Witness ==
    /\ resp.op = "login" /\ resp.status = 401
    /\ resp.body = "Invalid credentials"
    /\ resp.tok = NoTok

\* C17: whenever an edge handler is inside its HTTP call to the identity
\* tier, it holds no database session.
C17_NoDbSessionDuringCall ==
    inflight.phase # "none" => ~inflight.db_session

\* C18: an edge request that has sent its call to the identity tier
\* eventually returns, whether or not the identity tier ever answers.
C18_CallEventuallyReturns ==
    (inflight.phase = "sent") ~> (inflight.phase = "none")

\* once the identity tier has answered, the handler returns
CallReturnsOnceAnswered ==
    (inflight.phase = "answered") ~> (inflight.phase = "none")

\* C21: an edge login that finds the identity tier unreachable answers 502
\* with no token and leaves the cache and the auth_tokens table as they were.
C21_LoginUnreachableIs502 ==
    [][resp'.op = "login" =>
          \A u \in UserNames, p \in Passwords, ttl \in TTLs :
             EdgeLogin(u, p, ttl, "down") =>
                /\ resp'.status = 502
                /\ resp'.tok = NoTok
                /\ cache' = cache
                /\ rows' = rows]_vars

\* a login met an unreachable identity tier while a session was cached
C21_Witness ==
    /\ resp.op = "login" /\ resp.status = 502
    /\ DOMAIN cache # {}

\* C22: for every subject an account has and every issue time, parse_token
\* of the token string gives back the subject, the issue time and the
\* signature; and a cached token string whose signature was altered is not a
\* key of the cache, so check and whoami do not accept it.
C22_TokenRoundTrip ==
    /\ \A u \in users, ts \in {0, RefreshTTL} :
          LET tok == make_token(u.user_id, ts, now)
          IN parse_token(TokenString(tok))
                = <<Chars(u.user_id), tok.ts, Sig(u.user_id, tok.ts)>>
    /\ \A k \in DOMAIN cache :
          AlterSig(TokenString(k)) \notin {TokenString(k2) : k2 \in DOMAIN cache}

\* C28: a token with a live cache entry resolves, through current_user, to
\* the account whose login created its auth_tokens row.
C28_WhoamiResolvesCreator ==
    \A k \in DOMAIN cache :
       LET cu == current_user(users, cache, k, NoTok, now)
       IN cu.status = 200 /\ HasRow(rows, k)
          => UserByName(users, cu.user_id).id = RowOf(rows, k).user_id_fk

\* C23: verify_admin_token admits a token only if the account owning the
\* token's row is an admin, and answers 403 for an active token owned by an
\* account that is not an admin.
C23_AdminDataGate ==
    \A t \in ReqToks :
       LET gate == verify_admin_token(users, rows, t)
           owner == {u \in users : HasRow(rows, t) /\ u.id = RowOf(rows, t).user_id_fk}
       IN /\ gate = 200 => \E u \in owner : u.is_admin
          /\ (HasRow(rows, t) /\ RowOf(rows, t).revoked_at = Null
                /\ \E u \in owner : ~u.is_admin) => gate = 403

\* C24: every token with a live entry in the edge cache has a row in
\* auth_tokens.
C24_CachedTokenHasRow ==
    \A k \in DOMAIN cache :
       CheckStatus(cache, k, now) = "active" => HasRow(rows, k)

\* token strings the sessions of alice can carry: the ones issued by a login
\* at either instant and the one refresh mints
SessionToks ==
    {make_token("alice", 0, Epoch0), make_token("alice", 0, Epoch0 + TickStep),
     make_token("alice", RefreshTTL, Epoch0)}

\* C25: once an edge logout of token T has answered 200, check(T) never
\* reports active again, whatever the clients do afterwards.
C25_LogoutIsFinal ==
    \A T \in SessionToks :
       []((resp.op = "logout" /\ resp.status = 200 /\ resp.tok = T)
             => [](CheckStatus(cache, T, now) = "revoked"))

\* C29: at most one token per account has a live entry in the edge cache.
C29_OneLiveTokenPerAccount ==
    \A k1 \in DOMAIN cache, k2 \in DOMAIN cache :
       /\ CheckStatus(cache, k1, now) = "active"
       /\ CheckStatus(cache, k2, now) = "active"
       /\ cache[k1].val = cache[k2].val
       => k1 = k2

\* C26: at the identity tier, a logout of a token followed by a second logout
\* of the same token, at once or later, leaves the rows the first logout left.
C26_SecondLogoutChangesNothing ==
    \A t \in ReqToks, later \in {now, now + TickStep} :
       LET once == DbLogout(rows, t, now).rows
       IN DbLogout(once, t, later).rows = once

\* C30: a prune, in a logout or in the startup hook, deletes a row only if a
\* revoked row of the same account with a greater (revoked_at, id) stays; and
\* after the identity logout of an active token its row is present, revoked.
C30_PruneKeepsLatestRevoked ==
    [][resp'.op \in {"db_logout", "logout", "db_restart"} =>
          /\ \A q \in rows :
                (\A r \in rows' : r.id # q.id) =>
                   \E r \in rows' :
                      LET qt == IF q.revoked_at = Null THEN now ELSE q.revoked_at
                      IN /\ r.user_id_fk = q.user_id_fk
                         /\ r.revoked_at # Null
                         /\ qt < r.revoked_at \/ (qt = r.revoked_at /\ q.id < r.id)
          /\ \A q \in rows :
                (resp'.op = "db_logout" /\ resp'.tok = q.token /\ q.revoked_at = Null)
                => [q EXCEPT !.revoked_at = now] \in rows']_vars

\* an identity logout pruned the older revoked row and kept the newer one
C30_Witness ==
    /\ resp.op = "db_logout"
    /\ \E r \in rows : r.id = 2 /\ r.revoked_at # Null /\ r.token = resp.tok
    /\ \A r \in rows : r.id # 1

\* C27: when the startup hook of the identity service revokes a row, the
\* edge cache holds no live entry for the token of that row.
C27_BootRevokesOnlyDeadSessions ==
    [][resp'.op = "db_restart" =>
          \A r \in rows :
             r.revoked_at = Null => CheckStatus(cache, r.token, now) = "revoked"]_vars

\* the rows the whole operation of the open transaction leaves
WholeTx ==
    IF tx.op = "login" THEN DbLogin(users, rows, tx.user_id, tx.password, tx.at).rows
    ELSE IF tx.op = "logout" THEN DbLogout(rows, tx.tok, tx.at).rows
    ELSE BootRevoke(rows, tx.at)

\* C31: the committed auth_tokens table changes only at the commit of a
\* transaction, and then to the result of the whole operation (in logout the
\* revocation and the deletions together); a transaction that ends with an
\* error leaves the table as it was.
C31_IdentityOperationsAtomic ==
    [][/\ rows' # rows =>
             /\ tx.phase = "open" /\ tx.pc = "commit" /\ tx'.phase = "none"
             /\ rows' = WholeTx
       /\ (tx.phase = "open" /\ tx'.phase = "none" /\ resp'.status # 200)
             => rows' = rows]_vars

\* a logout committed the revocation of its token and the deletion of an
\* older revoked row
C31_Witness ==
    /\ resp.op = "tx_logout" /\ resp.status = 200
    /\ \E r \in rows : r.token = resp.tok /\ r.revoked_at = now /\ r.id = 3
    /\ \E q \in OldRows : q \notin rows

\* C32: an identity logout of token T adds no row and leaves every row as it
\* was, except that the row of T, if active, gets revoked_at set, and that
\* rows deleted were revoked rows of the account owning T.
C32_LogoutFrame ==
    [][resp'.op = "db_logout" =>
          /\ \A r \in rows' : \E q \in rows : q.id = r.id
          /\ \A q \in rows :
                \/ q \in rows'
                \/ /\ q.token = resp'.tok /\ q.revoked_at = Null
                   /\ [q EXCEPT !.revoked_at = now] \in rows'
                \/ /\ \A r \in rows' : r.id # q.id
                   /\ q.revoked_at # Null
                   /\ \E t \in rows : t.token = resp'.tok /\ t.user_id_fk = q.user_id_fk]_vars

\* an identity logout revoked the row of its token while another account
\* had a row, which is still there
C32_Witness ==
    /\ resp.op = "db_logout"
    /\ \E r \in rows : r.token = resp.tok /\ r.revoked_at = now
    /\ \E r \in rows : r.token # resp.tok /\ r.user_id_fk # 1

\* C33: after `svh server logout` with saved token T against a reachable
\* edge, check(T) reports revoked, the row of T (if any) is revoked and the
\* token file is cleared.
C33_CliLogoutLogsOut ==
    [][resp'.op = "cli_logout" =>
          /\ CheckStatus(cache', resp'.tok, now) = "revoked"
          /\ \A r \in rows' : r.token = resp'.tok => r.revoked_at # Null
          /\ resp'.body = "cleared"]_vars

\* C34: a websocket whose token is no longer active at the edge (its TTL
\* elapsed, or it was logged out or revoked) is closed with code 4401 by a
\* later heartbeat and removed from the hub's connection list.
C34_InactiveTokenClosesSocket ==
    \A i \in ConnIds :
        (socks[i].state = "open" /\ CheckStatus(cache, socks[i].token, now) # "active")
            ~> /\ socks[i].state = "closed" /\ socks[i].code = 4401
               /\ \A c \in hub.conns : c.ws # i

\* C35: delete_user never removes the last admin, under any interleaving of
\* delete_user calls: a delete_user step taken while an admin exists leaves
\* an admin, and a step that answers 400 deletes nothing.
C35_LastAdminSurvivesDeletes ==
    [][resp'.op = "delete_user" =>
          /\ (\E u \in users : u.is_admin) => (\E u \in users' : u.is_admin)
          /\ resp'.status = 400 => users' = users /\ rows' = rows]_vars

\* C36: when the client service process of a foreground `svh server start`
\* is stopped after SIGINT or SIGTERM, no websocket is still open, and every
\* websocket that had been accepted and not rejected with 4401 has received
\* server_shutdown and is closed.
C36_ShutdownNotifiesBeforeStop ==
    [][resp'.op = "client_stopped" =>
          \A i \in ConnIds :
              /\ socks[i].state # "open"
              /\ (socks[i].state = "closed" /\ socks[i].code # 4401)
                     => "server_shutdown" \in socks[i].msgs]_vars
====
